---- MODULE Spec2Model ----
(***************************************************************************)
(* Exam Helper agents: the orchestrator's process_query (the turn handler) *)
(* and the two responders (ExplainerAgent, LearnerAgent).                  *)
(*                                                                         *)
(* The text-generation capability, the prebuilt agent loop and the caller  *)
(* that owns the ExamHelperState are the environment.  An LLM call either  *)
(* raises or yields content; the routing decision of the orchestrator's    *)
(* agent is the one ORCHESTRATOR_PROMPT prescribes, and a free choice      *)
(* wherever the prompt prescribes none.                                    *)
(***************************************************************************)
EXTENDS Integers, Sequences, FiniteSets, TLC

\* ------------------------------------------------------------------ bounds
MaxTurns == 2
MaxBlocks == 2
RecursionLimit == 4

Handlers == {"h1", "h2"}

\* ------------------------------------------------------------------ text
\* A Python str is a sequence of characters; "" is << >>.
Whitespace == {" ", "\n"}
EmptyText == << >>
Texts == {EmptyText, <<" ">>, <<"a">>}

NonBlank(p) == \E i \in 1..Len(p) : p[i] \notin Whitespace

RECURSIVE Join(_)
Join(parts) ==
    IF Len(parts) = 0 THEN EmptyText
    ELSE IF Len(parts) = 1 THEN parts[1]
    ELSE parts[1] \o <<"\n">> \o Join(Tail(parts))

\* A content block of a structured message: a dict (with or without a
\* "text" key), a plain str, or any other object.
Blocks ==
    {[type |-> "dict", hasText |-> TRUE, text |-> <<"a">>],
     [type |-> "dict", hasText |-> FALSE, text |-> EmptyText],
     [type |-> "str", hasText |-> TRUE, text |-> <<" ">>],
     [type |-> "other", hasText |-> FALSE, text |-> <<"o">>]}

BlockLists == UNION {[1..n -> Blocks] : n \in 0..MaxBlocks}

\* message.content: a str or a list of blocks.
StrContent(t) == [isList |-> FALSE, text |-> t, blocks |-> << >>]
ListContent(bs) == [isList |-> TRUE, text |-> EmptyText, blocks |-> bs]
Contents == {StrContent(t) : t \in Texts} \cup {ListContent(bs) : bs \in BlockLists}

BlockPart(block) ==
    IF block.type = "dict" THEN (IF block.hasText THEN block.text ELSE EmptyText)
    ELSE block.text

_extract_text_from_message(content) ==
    IF content.isList
    THEN Join(SelectSeq([i \in 1..Len(content.blocks) |-> BlockPart(content.blocks[i])],
                        NonBlank))
    ELSE content.text

\* ------------------------------------------------------- LLM outcomes
\* One call of the text-generation capability (or of an agent loop built on
\* it): it raises, or it yields a final message with some content.
LlmRaise(e) == [raises |-> TRUE, error |-> e, content |-> StrContent(EmptyText)]
LlmReply(c) == [raises |-> FALSE, error |-> "none", content |-> c]

ModelOutcomes(down) ==
    {LlmRaise("TransientError")} \cup
    (IF down THEN {} ELSE {LlmReply(StrContent(t)) : t \in Texts})

AgentOutcomes(down) ==
    {LlmRaise("TransientError")} \cup
    (IF down THEN {} ELSE {LlmReply(c) : c \in Contents})

\* ------------------------------------------------------------ responders
\* The dict a responder's process_query returns; raised = an exception left
\* process_query instead of a dict.
RespSuccess(payload) ==
    [raised |-> FALSE, success |-> TRUE, hasResult |-> TRUE,
     result |-> payload, error |-> << >>]

RespFailure(e) ==
    [raised |-> FALSE, success |-> FALSE, hasResult |-> FALSE,
     result |-> EmptyText, error |-> <<e>>]

\* Variant: the except branch leaves a payload in the dict.
RespFailureKeepsPayload(e) ==
    [raised |-> FALSE, success |-> FALSE, hasResult |-> TRUE,
     result |-> <<"a">>, error |-> <<e>>]

\* Variant: the explainer rejects an empty reply.
ExplainerRejectEmpty(o) ==
    IF o.raises THEN RespFailure(o.error)
    ELSE IF o.content.text = EmptyText THEN RespFailure("EmptyOutput")
    ELSE RespSuccess(o.content.text)

ExplainerProcessQuery(o) ==
    IF o.raises THEN RespFailure(o.error)
    ELSE RespSuccess(o.content.text)

\* Variant: the learner's except branch re-raises.
LearnerReraise(e) ==
    [raised |-> TRUE, success |-> FALSE, hasResult |-> FALSE,
     result |-> EmptyText, error |-> << >>]

LearnerFailure(e) == RespFailure(e)

LearnerProcessQuery(o) ==
    IF o.raises THEN LearnerFailure(o.error)
    ELSE RespSuccess(_extract_text_from_message(o.content))

\* -------------------------------------------------------------- routing
Intents == {"unknown", "simple", "exam"}
Signals == {"simple", "exam", "both", "none"}
Tools == {"explainer_agent", "learner_agent"}

ResponderOf(intent) ==
    IF intent = "simple" THEN "explainer_agent" ELSE "learner_agent"

\* The plans (sequences of tool calls; << >> = ask the clarifying question)
\* the decision rules allow for an utterance with the given signals under
\* the intent shown in the prompt.
\* Variant: an unclear utterance is delegated to the explainer by default.
RouteDefaultExplainer(sig, intent) ==
    CASE sig = "simple" -> {<<"explainer_agent">>}
      [] sig = "exam" -> {<<"learner_agent">>}
      [] sig = "both" -> {<<"explainer_agent">>, <<"learner_agent">>, << >>}
      [] OTHER -> {<<"explainer_agent">>}

\* Variant: an utterance with both signals is delegated to both agents.
RouteMixed(sig, intent) ==
    CASE sig = "simple" -> {<<"explainer_agent">>}
      [] sig = "exam" -> {<<"learner_agent">>}
      [] sig = "both" -> {<<"explainer_agent", "learner_agent">>}
      [] OTHER -> IF intent \in {"simple", "exam"}
                  THEN {<<ResponderOf(intent)>>} ELSE {<< >>}

Route(sig, intent) ==
    CASE sig = "simple" -> {<<"explainer_agent">>}
      [] sig = "exam" -> {<<"learner_agent">>}
      [] sig = "both" -> {<<"explainer_agent">>, <<"learner_agent">>, << >>}
      [] OTHER -> IF intent \in {"simple", "exam"}
                  THEN {<<ResponderOf(intent)>>} ELSE {<< >>}

\* ------------------------------------------------------------- state
VARIABLES
    state,      \* the caller's ExamHelperState: messages, user_intent
    pc,         \* per handler: "idle", "called", "resolved", "done"
    call,       \* per handler: the locals of its process_query call
    out,        \* per handler: what process_query handed back
    nturns,     \* turns submitted so far
    llmDown,    \* the text-generation capability raises on every call
    lastResp,   \* the latest direct call of a responder's process_query
    learner     \* the agent run of a direct call of the learner

vars == <<state, pc, call, out, nturns, llmDown, lastResp, learner>>

\* Entries of the message history.
HumanMessage(t, sig) == [role |-> "human", turn |-> t, kind |-> "utterance", body |-> sig]
AIToolCall(t, tool) == [role |-> "ai", turn |-> t, kind |-> "tool_call", body |-> tool]
ToolMessage(t, tool, env) ==
    [role |-> "tool", turn |-> t, kind |-> tool,
     body |-> IF env.success THEN "ok" ELSE "error"]
AIText(t, what) == [role |-> "ai", turn |-> t, kind |-> "text", body |-> what]

\* The dict the orchestrator's process_query returns (raised = an exception
\* left process_query instead of a dict).
\* Variant: the success dict drops the messages of the run.
OrchSuccessNoHistory(resultMessages) ==
    [raised |-> FALSE, success |-> TRUE, hasResult |-> TRUE,
     hasMessages |-> TRUE, messages |-> << >>, error |-> << >>]

OrchSuccess(resultMessages) ==
    [raised |-> FALSE, success |-> TRUE, hasResult |-> TRUE,
     hasMessages |-> TRUE, messages |-> resultMessages, error |-> << >>]

\* Variant: the except branch re-raises.
OrchReraise(e) ==
    [raised |-> TRUE, success |-> FALSE, hasResult |-> FALSE,
     hasMessages |-> FALSE, messages |-> << >>, error |-> << >>]

\* Variant: the except branch returns an empty error list.
OrchFailureNoError(e) ==
    [raised |-> FALSE, success |-> FALSE, hasResult |-> FALSE,
     hasMessages |-> FALSE, messages |-> << >>, error |-> << >>]

OrchFailure(e) ==
    [raised |-> FALSE, success |-> FALSE, hasResult |-> FALSE,
     hasMessages |-> FALSE, messages |-> << >>, error |-> <<e>>]

NoOutcome ==
    [raised |-> FALSE, success |-> FALSE, hasResult |-> FALSE,
     hasMessages |-> FALSE, messages |-> << >>, error |-> <<"pending">>]

\* Variant: get_prompt ignores the state's intent.
GetPromptIgnoresState(hasState, st) == "unknown"

\* get_prompt: the intent shown to the agent under CURRENT STATE.
GetPromptIntent(hasState, st) ==
    IF hasState THEN st.user_intent ELSE "unknown"

\* state.get("messages", []) if state else []
InputMessages(hasState, st) ==
    IF hasState THEN st.messages ELSE << >>

\* The signals of the latest user utterance among the messages given to the
\* agent ("none" when there is no signal or no utterance).
LastSig(msgs) ==
    LET hs == {i \in 1..Len(msgs) : msgs[i].role = "human"}
    IN  IF hs = {} THEN "none"
        ELSE msgs[CHOOSE i \in hs : \A j \in hs : j <= i].body

\* The envelopes the responder behind a tool can hand to the tool.
ExplainerEnvelopes == [down \in BOOLEAN |-> {ExplainerProcessQuery(o) : o \in ModelOutcomes(down)}]
LearnerEnvelopes == [down \in BOOLEAN |-> {LearnerProcessQuery(o) : o \in AgentOutcomes(down)}]

ToolEnvelopes(tool, down) ==
    IF tool = "explainer_agent" THEN ExplainerEnvelopes[down] ELSE LearnerEnvelopes[down]

PlanEnvelopes(plan, down) ==
    IF Len(plan) = 0 THEN {<< >>}
    ELSE IF Len(plan) = 1 THEN {<<e>> : e \in ToolEnvelopes(plan[1], down)}
    ELSE {<<e1, e2>> : e1 \in ToolEnvelopes(plan[1], down), e2 \in ToolEnvelopes(plan[2], down)}

\* What one run of the prebuilt agent appends to the messages it was given:
\* per tool of the plan the AI message calling it and the tool's message,
\* then the agent's final AI message.
AgentAppends(t, plan, envs) ==
    LET n == Len(plan)
    IN  [j \in 1..(2 * n + 1) |->
            IF j = 2 * n + 1
            THEN AIText(t, IF n = 0 THEN "question" ELSE "relay")
            ELSE IF j % 2 = 1 THEN AIToolCall(t, plan[(j + 1) \div 2])
            ELSE ToolMessage(t, plan[j \div 2], envs[j \div 2])]

\* What process_query does to the state it was passed: it reads the messages
\* and the intent and assigns to neither.
\* Variant: a turn whose responder succeeded records that responder's intent.
StateRecordsIntent(st, plan, envs, failed) ==
    IF ~failed /\ plan # << >> /\ envs[Len(plan)].success
    THEN [st EXCEPT !.user_intent =
              IF plan[Len(plan)] = "explainer_agent" THEN "simple" ELSE "exam"]
    ELSE st

StateAfterTurn(st, plan, envs, failed) == st

NoCall ==
    [turn |-> 0, query |-> "none", hasState |-> FALSE, promptIntent |-> "unknown",
     snapshot |-> << >>,
     seenSig |-> "none", routed |-> FALSE, invoked |-> << >>, resolveError |-> FALSE]

NoResp == [agent |-> "none", llm |-> LlmRaise("none"), env |-> RespFailure("none")]

\* The agent run inside LearnerAgent.process_query: the steps taken, the
\* retrieval-tool calls made and what they came back with.
NoLearner ==
    [pc |-> "idle", steps |-> 0, toolCalls |-> 0,
     toolEmpty |-> FALSE, toolFailed |-> FALSE, limitHit |-> FALSE]

\* What a call of the retrieval tool hands to the agent: results, nothing,
\* or a failure, which is reported to the agent and not raised.
RetrievalOutcomes == {"results", "empty", "failed"}

Init ==
    /\ state = [messages |-> << >>, user_intent |-> "unknown"]
    /\ pc = [h \in Handlers |-> "idle"]
    /\ call = [h \in Handlers |-> NoCall]
    /\ out = [h \in Handlers |-> NoOutcome]
    /\ nturns = 0
    /\ llmDown \in BOOLEAN
    /\ lastResp = NoResp
    /\ learner = NoLearner

\* ------------------------------------------------------------ actions
AllIdle == \A h \in Handlers : pc[h] = "idle"

\* The caller starts a turn: process_query(query, state) with the user's
\* utterance as the latest message of the state it passes, or with no state.
\* A turn that arrives while no other is in flight is handled as h1; h2 is
\* the handler of a turn of the session that arrives while h1 is in flight.
Submit(h, sig, withState) ==
    /\ pc[h] = "idle"
    /\ h = "h2" => (pc["h1"] # "idle" /\ withState)
    /\ nturns < MaxTurns
    /\ nturns' = nturns + 1
    /\ state' = IF withState
                THEN [state EXCEPT !.messages = Append(@, HumanMessage(nturns + 1, sig))]
                ELSE state
    /\ call' = [call EXCEPT ![h] =
                   [NoCall EXCEPT !.turn = nturns + 1, !.query = sig,
                                  !.hasState = withState]]
    /\ pc' = [pc EXCEPT ![h] = "called"]
    /\ out' = [out EXCEPT ![h] = NoOutcome]
    /\ learner.pc \in {"idle", "done"}
    /\ lastResp' = NoResp
    /\ learner' = NoLearner
    /\ UNCHANGED llmDown

\* get_tools, get_prompt, create_react_agent; an exception raised here (the
\* tools cannot be resolved) is caught by the handler's except.
Resolve(h) ==
    /\ pc[h] = "called"
    /\ \E fails \in BOOLEAN :
        IF fails
        THEN /\ out' = [out EXCEPT ![h] = OrchFailure("UnknownIntentError")]
             /\ call' = [call EXCEPT ![h].resolveError = TRUE]
             /\ pc' = [pc EXCEPT ![h] = "done"]
        ELSE /\ call' = [call EXCEPT ![h].promptIntent =
                            GetPromptIntent(call[h].hasState, state)]
             /\ pc' = [pc EXCEPT ![h] = "resolved"]
             /\ out' = out
    /\ UNCHANGED <<state, nturns, llmDown, lastResp, learner>>

\* agent.invoke on the state's messages, and the return of the envelope.
Invoke(h) ==
    /\ pc[h] = "resolved"
    /\ LET msgs == InputMessages(call[h].hasState, state)
           sig == LastSig(msgs)
       IN  \E firstRaises \in (IF llmDown THEN {TRUE} ELSE BOOLEAN),
              plan \in Route(sig, call[h].promptIntent) :
            \E finalRaises \in (IF plan = << >> \/ firstRaises THEN {FALSE} ELSE BOOLEAN),
               envs \in (IF firstRaises THEN {<< >>} ELSE PlanEnvelopes(plan, llmDown)) :
            LET failed == firstRaises \/ finalRaises
            IN  /\ state' = StateAfterTurn(state, plan, envs, failed)
                /\ out' = [out EXCEPT ![h] =
                       IF failed THEN OrchFailure("TransientError")
                       ELSE OrchSuccess(msgs \o AgentAppends(call[h].turn, plan, envs))]
                /\ call' = [call EXCEPT ![h].snapshot = msgs,
                                        ![h].seenSig = sig,
                                        ![h].routed = ~firstRaises,
                                        ![h].invoked = IF firstRaises THEN << >> ELSE plan]
    /\ pc' = [pc EXCEPT ![h] = "done"]
    /\ UNCHANGED <<nturns, llmDown, lastResp, learner>>

\* The caller takes the envelope: the messages handed back become the
\* state's messages; a failed envelope hands back none.
Adopt(h) ==
    /\ pc[h] = "done"
    /\ state' = IF out[h].success /\ out[h].hasMessages /\ call[h].hasState
                THEN [state EXCEPT !.messages = out[h].messages]
                ELSE state
    /\ pc' = [pc EXCEPT ![h] = "idle"]
    /\ call' = [call EXCEPT ![h] = NoCall]
    /\ out' = [out EXCEPT ![h] = NoOutcome]
    /\ UNCHANGED <<nturns, llmDown, lastResp, learner>>

\* The caller sets the state's user_intent between turns.
SetIntent(i) ==
    /\ AllIdle
    /\ nturns < MaxTurns
    /\ i # state.user_intent
    /\ state' = [state EXCEPT !.user_intent = i]
    /\ UNCHANGED <<pc, call, out, nturns, llmDown, lastResp, learner>>

\* Direct calls of the responders' process_query.  The envelope does not
\* depend on the state passed (it only fills the prompt's context), so the
\* calls are enumerated on the fresh session.
ExplainerCall ==
    /\ AllIdle /\ nturns = 0
    /\ learner.pc \in {"idle", "done"}
    /\ \E o \in ModelOutcomes(llmDown) :
        lastResp' = [agent |-> "explainer_agent", llm |-> o,
                     env |-> ExplainerProcessQuery(o)]
    /\ learner' = NoLearner
    /\ UNCHANGED <<state, pc, call, out, nturns, llmDown>>

\* LearnerAgent.process_query up to agent.ainvoke: the agent is created and
\* its run starts with the planning step.
LearnerCall ==
    /\ AllIdle /\ nturns = 0
    /\ learner.pc \in {"idle", "done"}
    /\ learner' = [NoLearner EXCEPT !.pc = "plan"]
    /\ lastResp' = NoResp
    /\ UNCHANGED <<state, pc, call, out, nturns, llmDown>>

\* The run ends with outcome o; process_query returns its envelope.
\* Variant: a retrieval call that failed or found nothing fails the turn.
LearnerReturnsToolFatal(o, hit) ==
    /\ learner' = [learner EXCEPT !.pc = "done", !.limitHit = hit]
    /\ lastResp' = [agent |-> "learner_agent", llm |-> o,
                    env |-> IF learner.toolFailed \/ learner.toolEmpty
                              THEN LearnerFailure("RetrievalError")
                              ELSE LearnerProcessQuery(o)]

LearnerReturns(o, hit) ==
    /\ learner' = [learner EXCEPT !.pc = "done", !.limitHit = hit]
    /\ lastResp' = [agent |-> "learner_agent", llm |-> o,
                    env |-> LearnerProcessQuery(o)]

LimitReached == learner.steps >= RecursionLimit

\* A step of the text-generation capability inside the run: it raises, it
\* asks for the retrieval tool, or it gives the final message.
LearnerPlan ==
    /\ learner.pc = "plan"
    /\ ~LimitReached
    /\ \/ \E o \in AgentOutcomes(llmDown) : LearnerReturns(o, FALSE)
       \/ /\ ~llmDown
          /\ learner' = [learner EXCEPT !.pc = "tool", !.steps = @ + 1]
          /\ lastResp' = lastResp
    /\ UNCHANGED <<state, pc, call, out, nturns, llmDown>>

\* A call of the retrieval tool; its message goes back to the planning step.
LearnerTool ==
    /\ learner.pc = "tool"
    /\ ~LimitReached
    /\ \E r \in RetrievalOutcomes :
        learner' = [learner EXCEPT !.pc = "plan", !.steps = @ + 1,
                                   !.toolCalls = @ + 1,
                                   !.toolEmpty = @ \/ (r = "empty"),
                                   !.toolFailed = @ \/ (r = "failed")]
    /\ UNCHANGED <<state, pc, call, out, nturns, llmDown, lastResp>>

\* The run has used up the agent framework's step limit: the framework
\* raises out of agent.ainvoke.
LearnerLimit ==
    /\ learner.pc \in {"plan", "tool"}
    /\ LimitReached
    /\ LearnerReturns(LlmRaise("GraphRecursionError"), TRUE)
    /\ UNCHANGED <<state, pc, call, out, nturns, llmDown>>

Next ==
    \/ \E h \in Handlers, sig \in Signals, withState \in BOOLEAN : Submit(h, sig, withState)
    \/ \E h \in Handlers : Resolve(h)
    \/ \E h \in Handlers : Invoke(h)
    \/ \E h \in Handlers : Adopt(h)
    \/ \E i \in Intents : SetIntent(i)
    \/ ExplainerCall
    \/ LearnerCall
    \/ LearnerPlan
    \/ LearnerTool
    \/ LearnerLimit

Spec == Init /\ [][Next]_vars

\* ----------------------------------------------------------- properties
Done(h) == pc[h] = "done"

IsPrefix(a, b) == Len(a) <= Len(b) /\ SubSeq(b, 1, Len(a)) = a

\* The entries a handed-back history holds beyond the history the handler read.
Appended(h) == SubSeq(out[h].messages, Len(call[h].snapshot) + 1, Len(out[h].messages))

\* The envelope invariant of a returned dict.
EnvelopeOk(e) ==
    /\ ~e.success => (~e.hasResult /\ Len(e.error) > 0)
    /\ e.success => Len(e.error) = 0

\* C1: every envelope returned by the orchestrator's or a responder's
\* process_query has: success = false implies the payload is None and the
\* error list is non-empty; success = true implies the error list is empty.
C1_EnvelopeInvariant ==
    /\ \A h \in Handlers : Done(h) => EnvelopeOk(out[h])
    /\ lastResp.agent # "none" => EnvelopeOk(lastResp.env)

\* C1 witness: a turn that failed after its responder had run has returned
\* its envelope.
C1_Witness ==
    \E h \in Handlers :
        Done(h) /\ ~out[h].success /\ call[h].routed /\ Len(call[h].invoked) = 1

\* C2: while the text-generation capability raises on every call, every call
\* of the turn handler and of a responder returns (does not raise) an
\* envelope with success = false and a non-empty error list, turn after turn.
C2_FailureIsolation ==
    llmDown =>
        /\ \A h \in Handlers :
              Done(h) => (~out[h].raised /\ ~out[h].success /\ Len(out[h].error) > 0)
        /\ lastResp.agent # "none" =>
              (~lastResp.env.raised /\ ~lastResp.env.success /\ Len(lastResp.env.error) > 0)

\* C2 witness: with the capability down, a second consecutive turn has
\* reached the agent run and returned.
C2_Witness ==
    \E h \in Handlers :
        llmDown /\ Done(h) /\ call[h].turn >= 2 /\ ~call[h].resolveError

\* The final text a responder would hand back for an LLM reply is empty.
EmptyOutput(o) ==
    IF o.content.isList
    THEN \A i \in 1..Len(o.content.blocks) : ~NonBlank(BlockPart(o.content.blocks[i]))
    ELSE o.content.text = EmptyText

Routed(h) == Done(h) /\ call[h].routed

\* The tool-call entries among the entries a handler appended.
ToolCalls(h) == {i \in 1..Len(Appended(h)) : Appended(h)[i].kind = "tool_call"}

TurnEntries(msgs, t) == SelectSeq(msgs, LAMBDA m : m.turn = t)

SystemEntries(msgs, t) == SelectSeq(msgs, LAMBDA m : m.turn = t /\ m.role # "human")

\* C8 (as claimed): after a turn that returns success = false, the history
\* handed back to the caller holds that turn's user entry and a failure
\* marker.
C8_FailedTurnRecorded ==
    \A h \in Handlers :
        (Done(h) /\ ~out[h].success) =>
            /\ out[h].hasMessages
            /\ \E i \in 1..Len(out[h].messages) :
                  out[h].messages[i] = HumanMessage(call[h].turn, call[h].query)
            /\ Len(SystemEntries(out[h].messages, call[h].turn)) > 0

\* C8 (amended): a turn that returns success = false hands back its error
\* description and no history at all (no user entry, no failure marker), and
\* the handler records nothing of the turn in the state, which stays usable
\* for the next turn.
C8_FailedTurnHandsBackNoHistory ==
    \A h \in Handlers :
        (Done(h) /\ ~out[h].success) =>
            /\ ~out[h].raised
            /\ ~out[h].hasMessages
            /\ ~out[h].hasResult
            /\ Len(out[h].error) = 1
            /\ Len(SystemEntries(state.messages, call[h].turn)) = 0

\* C8 witness: the turn after a failed one has been processed and succeeded;
\* the history it read holds the failed turn's user entry and nothing else
\* of that turn.
C8_Witness ==
    \E h \in Handlers :
        /\ Done(h) /\ out[h].success /\ call[h].turn = 2
        /\ pc["h2"] = "idle"
        /\ Len(TurnEntries(call[h].snapshot, 1)) = 1
        /\ Len(SystemEntries(out[h].messages, 2)) > 0

\* C9 (as claimed): an unknown-intent error raised while resolving the
\* responders leaves the turn handler as a fatal error raised to the caller.
C9_UnknownIntentPropagates ==
    \A h \in Handlers :
        (Done(h) /\ call[h].resolveError) => out[h].raised

\* C9 (amended): an unknown-intent error raised while resolving the
\* responders is caught like any other exception and returned as an ordinary
\* failed envelope, success = false with errors = [description]; nothing is
\* raised to the caller.
C9_UnknownIntentIsFailedEnvelope ==
    \A h \in Handlers :
        (Done(h) /\ call[h].resolveError) =>
            /\ ~out[h].raised
            /\ ~out[h].success
            /\ ~out[h].hasResult
            /\ out[h].error = <<"UnknownIntentError">>

\* C9 witness: the resolution of a turn has failed and the turn has returned.
C9_Witness ==
    \E h \in Handlers : Done(h) /\ call[h].resolveError /\ call[h].hasState

\* Two turns of the same session are in flight together and both have
\* returned success.
BothReturned ==
    \A h \in Handlers : Done(h) /\ out[h].success /\ call[h].hasState

LearnerRunning == learner.pc \in {"plan", "tool"}

\* The learner's agent run ended because the step limit was used up.
LearnerHitLimit == learner.pc = "done" /\ learner.limitHit

\* C11 (as claimed): the learner's loop is cut off by an explicit cap on the
\* retrieval-tool calls; a run that keeps asking for the tool past the cap
\* ends with a ResponderTimeoutError, reported as a failed envelope.
C11_TimeoutErrorAtCap ==
    LearnerHitLimit =>
        /\ ~lastResp.env.success
        /\ lastResp.env.error = <<"ResponderTimeoutError">>

\* C11 (amended): the learner sets no cap of its own and knows no
\* ResponderTimeoutError; its loop is bounded by the agent framework's step
\* limit alone.  A run never takes more steps or tool calls than that limit,
\* never gets stuck, and a run that keeps asking for the tool up to the limit
\* ends with the framework's error, caught and returned as a failed envelope.
C11_RunBoundedByFrameworkLimit ==
    /\ learner.steps <= RecursionLimit
    /\ 2 * learner.toolCalls <= learner.steps
    /\ LearnerRunning => ENABLED (LearnerPlan \/ LearnerTool \/ LearnerLimit)
    /\ LearnerHitLimit =>
          /\ lastResp.agent = "learner_agent"
          /\ ~lastResp.env.raised
          /\ ~lastResp.env.success
          /\ ~lastResp.env.hasResult
          /\ lastResp.env.error = <<"GraphRecursionError">>

\* C11 witness: a run that asked for the retrieval tool again and again was
\* cut off at the limit and process_query has returned.
C11_Witness ==
    LearnerHitLimit /\ learner.toolCalls >= 2 /\ learner.steps = RecursionLimit

\* The learner's agent run has ended after a retrieval call that failed or
\* came back empty.
LearnerDoneUnenriched ==
    learner.pc = "done" /\ (learner.toolFailed \/ learner.toolEmpty)

SuccessfulResponderTurn(msgs) ==
    \E i \in 1..Len(msgs) : msgs[i].role = "tool" /\ msgs[i].body = "ok"

\* A step of process_query itself (not of its caller).
HandlerStep ==
    \E h \in Handlers : pc[h] \in {"called", "resolved"} /\ pc'[h] # pc[h]

\* C13 (as claimed): the session's intent is recorded by the turns whose
\* responder succeeded and by nothing else: an intent other than the initial
\* one is in the state only after a successful responder turn of the session,
\* and a turn that failed or asked the clarifying question leaves it as it was.
C13_IntentSetBySuccessfulTurn ==
    /\ state.user_intent # "unknown" => SuccessfulResponderTurn(state.messages)
    /\ \A h \in Handlers :
          (Done(h) /\ call[h].hasState /\ (~out[h].success \/ call[h].invoked = << >>))
              => state.user_intent = call[h].promptIntent \/ call[h].resolveError

\* C13 (amended): process_query records nothing in the state.  No step of a
\* turn, whether its responder succeeded, failed, or the clarifying question
\* was asked, changes the state's intent or any other field of the state, and
\* the state has no field for the last responder; the intent is what the
\* caller put there.
C13_NoTurnRecordsIntent ==
    [][HandlerStep =>
          /\ state' = state
          /\ DOMAIN state' = {"messages", "user_intent"}]_vars

\* C13 witness: a turn with the session's state delegated to the learner, the
\* responder succeeded, process_query has returned its success envelope, and
\* the state's intent is still the initial one.
C13_Witness ==
    \E h \in Handlers :
        /\ Done(h) /\ call[h].hasState
        /\ out[h].success
        /\ call[h].invoked = <<"learner_agent">>
        /\ \E i \in 1..Len(out[h].messages) :
              /\ out[h].messages[i].turn = call[h].turn
              /\ out[h].messages[i].role = "tool"
              /\ out[h].messages[i].body = "ok"
        /\ state.user_intent = "unknown"

====
